---- MODULE Spec2Model ----
(***************************************************************************)
(* A model of the site crawler of seo-cli (src/src/lib/crawler.ts):        *)
(* the frontier (queue, visited set, results map, activeRequests), the     *)
(* admission loop of crawl() and the two halves of processUrl(), before    *)
(* and after the await of fetchPage().                                     *)
(*                                                                         *)
(* JavaScript runs one synchronous section at a time.  crawl() only        *)
(* suspends at its 100 ms sleep, so the continuation of a processUrl()     *)
(* task runs only while crawl() sleeps, and runs to its end in one piece.  *)
(*                                                                         *)
(* fetchPage() is the function of what its successive fetch() calls do.    *)
(* generateSummary() is a function of its argument.  The utilities the     *)
(* crawler uses (src/src/lib/formatter.ts), RateLimiter and withRetry, are *)
(* state machines of their own, each run by its own specification:         *)
(* Spec and FairSpec run the crawler, LimiterSpec the rate limiter,        *)
(* RetrySpec withRetry, SummarySpec generateSummary.                       *)
(***************************************************************************)
EXTENDS Integers, Sequences, FiniteSets, TLC

\* ------------------------------------------------------------------ bounds
\* Longest list of <a href> values on one page.
MaxLinks == 2
\* The option maxDepth ranges over 0..MaxDepthOpt.
MaxDepthOpt == 1
\* The option maxPages ranges over 1..MaxPagesOpt.
MaxPagesOpt == 3
\* The option concurrency ranges over 1..MaxConcurrencyOpt.
MaxConcurrencyOpt == 2
\* RateLimiter: requestsPerSecond ranges over 1..MaxRate.
MaxRate == 2
\* RateLimiter: the clock advances in steps of 1/TicksPerToken of the time one
\* token takes to refill, that is 1000 / (requestsPerSecond * TicksPerToken) ms.
TicksPerToken == 2
\* RateLimiter: tasks that call acquire(), and how many calls they make in all.
NumCallers == 3
MaxAcquires == 4
\* RateLimiter: the clock runs for HorizonSeconds seconds.
HorizonSeconds == 2
\* generateSummary: the longest array of results it is called with.
MaxResults == 2
\* withRetry: maxRetries ranges over 0..MaxRetriesOpt, initialDelay over
\* 0..MaxInitialDelay, maxDelay over 1..MaxMaxDelay and backoffFactor over
\* 1..MaxBackoffFactor; one invocation of fn takes up to MaxFnTicks ticks.
MaxRetriesOpt == 2
MaxInitialDelay == 2
MaxMaxDelay == 3
MaxBackoffFactor == 2
MaxFnTicks == 1

\* -------------------------------------------------------------------- URLs
\* A URL as the WHATWG parser serialises it (URL.href): a host, a path,
\* whether the serialisation ends with "/", whether it carries a #fragment.
\* The root path is "" and always serialises with the trailing "/".
\* host = "" stands for an attribute value that `new URL(value, base)`
\* rejects (such as "https://"), which has no href at all.
MkUrl(host, path, slash, hash) ==
    [host |-> host, path |-> path, slash |-> slash, hash |-> hash]

BaseHost == "site"
StartUrl == MkUrl(BaseHost, "", TRUE, FALSE)
PageA == MkUrl(BaseHost, "a", FALSE, FALSE)
PageASlashHash == MkUrl(BaseHost, "a", TRUE, TRUE)
PageB == MkUrl(BaseHost, "b", FALSE, FALSE)
External == MkUrl("other", "", TRUE, FALSE)
Unresolvable == MkUrl("", "", FALSE, FALSE)

\* `new URL(value, base)` succeeds.
Resolves(u) == u.host # ""

RootHash == MkUrl(BaseHost, "", TRUE, TRUE)

\* The href values of which every list up to MaxLinks is a page's content,
\* already resolved against the page URL.
Hrefs == {PageA, PageASlashHash, PageB}

normalizeUrl(u) ==
    IF ~Resolves(u) THEN u
    ELSE LET parsed == [u EXCEPT !.hash = FALSE]
             isOriginRoot == parsed.host = BaseHost /\ parsed.path = ""
         IN  IF parsed.slash /\ ~isOriginRoot
             THEN [parsed EXCEPT !.slash = FALSE]
             ELSE parsed

\* Mutant: every resolvable link counts as internal.
isInternalUrl_AnyHost(u) == Resolves(u)

isInternalUrl(u) == Resolves(u) /\ u.host = BaseHost

\* URLs for the skip rule.  The path of a URL record is what follows the
\* host in its serialisation, a query string included.
PdfUrl == MkUrl(BaseHost, "doc.pdf", FALSE, FALSE)
PdfUpperUrl == MkUrl(BaseHost, "DOC.PDF", FALSE, FALSE)
PdfQueryUrl == MkUrl(BaseHost, "doc.pdf?dl=1", FALSE, FALSE)
FeedUrl == MkUrl(BaseHost, "feed", FALSE, FALSE)

\* url.toLowerCase(), on the paths of the model.
lowerPath(u) == IF u.path = "DOC.PDF" THEN "doc.pdf" ELSE u.path

\* The lower-cased paths of the model on which the two tests of shouldCrawl
\* succeed: those ending with a skip-listed extension, those containing a
\* skip-listed pattern.
SkipExtensionPaths == {"doc.pdf"}
SkipPatternPaths == {"feed"}

\* skipExtensions.some(ext => lowerUrl.endsWith(ext)): the test is made on the
\* end of the whole serialisation.
endsWithSkipExtension(u) ==
    ~u.slash /\ ~u.hash /\ lowerPath(u) \in SkipExtensionPaths

\* skipPatterns.some(pattern => lowerUrl.includes(pattern))
includesSkipPattern(u) == lowerPath(u) \in SkipPatternPaths

shouldCrawl(u) == ~endsWithSkipExtension(u) /\ ~includesSkipPattern(u)

\* --------------------------------------------------------------- documents
NullText == "null"

\* Texts are tokens; TextLen gives the length the parser's checks read.
LongTitle == "title of 61 chars"
LongMeta == "meta description of 161 chars"
TextLen(text) ==
    CASE text = "" -> 0
      [] text = LongTitle -> 61
      [] text = LongMeta -> 161
      [] OTHER -> 1

MkHtml(title, meta, h1, hrefs, imgs) ==
    [title |-> title, meta |-> meta, h1 |-> h1, hrefs |-> hrefs, imgs |-> imgs]

\* The empty body fetchPage substitutes for non-HTML responses and timeouts.
EmptyHtml == MkHtml("", "", "", <<>>, <<>>)

LinkLists == UNION {[1..n -> Hrefs] : n \in 0..MaxLinks}

LinkDocs == {MkHtml("T", "M", "H", ls, <<>>) : ls \in LinkLists}

\* More links than any concurrency the model admits.
WideDoc == MkHtml("T", "M", "H", <<PageA, PageB, PageASlashHash, PageB>>, <<>>)
\* A link to another host, then an internal one.
ExternalDoc == MkHtml("T", "M", "H", <<External, PageA>>, <<>>)
\* A link back to the start page, with a fragment.
BackLinkDoc == MkHtml("T", "M", "H", <<RootHash>>, <<>>)
\* <a href> that cannot be resolved, followed by a good one.
BadHrefDoc == MkHtml("T", "M", "H", <<Unresolvable, PageA>>, <<>>)
\* Overlong title and description, no <h1>, an <img src> without alt text.
ImgDoc == MkHtml(LongTitle, LongMeta, "", <<>>, <<[src |-> PageB, alt |-> ""]>>)
\* <img src> that cannot be resolved.
BadImgDoc == MkHtml("T", "M", "H", <<PageA>>, <<[src |-> Unresolvable, alt |-> "x"]>>)

Docs == LinkDocs \cup {WideDoc, ExternalDoc, BackLinkDoc, BadHrefDoc, ImgDoc, BadImgDoc}

\* What fetchPage() resolves to: null, or {html, status}.
NullResponse == [kind |-> "null"]
Page(html, status) == [kind |-> "page", html |-> html, status |-> status]

\* What an invocation of fn settles with: a value, or a thrown value, which is
\* an Error or something else (here a string).
Value(v) == [kind |-> "value", v |-> v]
Thrown(isError, message, by) ==
    [kind |-> "thrown", isError |-> isError, message |-> message, by |-> by]
\* `undefined`: lastError before any failure, the promise while pending.
Undefined == [kind |-> "undefined"]

\* e instanceof Error ? e : new Error(String(e))
toError(e) == IF e.isError THEN e ELSE Thrown(TRUE, e.message, "withRetry")

\* ---------------------------------------------------------------- fetchPage
\* What one `await fetch(url, ...)` of fetchPage does: it resolves to a
\* response (content-type header, body, status) or it throws.  An error message
\* is held as its sequence of words.
FetchResponse(contentType, body, status) ==
    [kind |-> "response", contentType |-> contentType, body |-> body, status |-> status]
FetchThrows(name, message) ==
    [kind |-> "thrown", isError |-> TRUE, name |-> name, message |-> message,
     by |-> "fetch"]

\* controller.abort() fired: fetch rejects with the DOMException AbortError.
AbortError == FetchThrows("AbortError", <<"This", "operation", "was", "aborted">>)
\* The TypeError of a failed connection.
FetchFailed == FetchThrows("TypeError", <<"fetch", "failed">>)
\* A system error whose message names its code.
ConnTimedOut == FetchThrows("Error", <<"connect", "ETIMEDOUT">>)

toLowerCase(word) ==
    CASE word = "ETIMEDOUT" -> "etimedout"
      [] word = "This" -> "this"
      [] OTHER -> word

retryablePatterns ==
    {<<"network">>, <<"timeout">>, <<"econnreset">>, <<"econnrefused">>,
     <<"socket", "hang", "up">>, <<"etimedout">>, <<"enotfound">>,
     <<"429">>, <<"500">>, <<"502">>, <<"503">>, <<"504">>}

includes(message, pattern) ==
    \E i \in 1..(Len(message) - Len(pattern) + 1) :
        SubSeq(message, i, i + Len(pattern) - 1) = pattern

isRetryableError(error) ==
    LET message == [i \in 1..Len(error.message) |-> toLowerCase(error.message[i])]
    IN  \E pattern \in retryablePatterns : includes(message, pattern)

\* Mutant: the content type is not looked at.
isHtml_Always(contentType) == TRUE

\* contentType.includes('text/html'); a missing header reads as ''.
isHtml(contentType) == contentType \in {"text/html", "text/html; charset=utf-8"}

\* The function fetchPage hands to withRetry, on one outcome of fetch().
fetchAttempt(outcome) ==
    IF outcome.kind = "thrown" THEN outcome
    ELSE IF ~isHtml(outcome.contentType)
    THEN Value(Page(EmptyHtml, outcome.status))
    ELSE Value(Page(outcome.body, outcome.status))

FetchMaxRetries == 2

\* withRetry(fn, {maxRetries: 2, initialDelay: 500, retryOn: isRetryableError})
\* from attempt on, where tape[k] is the outcome of the k-th fetch(): what it
\* settles with and how many fetches it made.
RECURSIVE fetchWithRetry(_, _)
fetchWithRetry(tape, attempt) ==
    LET settled == fetchAttempt(tape[attempt + 1]) IN
    IF settled.kind = "value"
    THEN [settled |-> settled, attempts |-> attempt + 1]
    ELSE LET lastError == toError(settled) IN
         IF attempt = FetchMaxRetries \/ ~isRetryableError(lastError)
         THEN [settled |-> lastError, attempts |-> attempt + 1]
         ELSE fetchWithRetry(tape, attempt + 1)

\* Mutant: a timeout is handled like any other failure.
isAbortError_Never(e) == FALSE

\* e instanceof Error && e.name === 'AbortError'
isAbortError(e) == e.isError /\ e.name = "AbortError"

\* acquires counts the calls of rateLimiter.acquire(): fetchPage awaits one,
\* before it hands the fetch to withRetry.
fetchPage(tape) ==
    LET run == fetchWithRetry(tape, 0) IN
    [pageData |-> IF run.settled.kind = "value" THEN run.settled.v
                  ELSE IF isAbortError(run.settled) THEN Page(EmptyHtml, 408)
                  ELSE NullResponse,
     attempts |-> run.attempts,
     acquires |-> 1]

\* The outcomes of fetch() the model draws from: every document as an HTML
\* page, an HTML error page, responses that are not HTML (their body is never
\* read), and the three errors.
HtmlPage(d) == FetchResponse("text/html; charset=utf-8", d, 200)
NotFoundPage == FetchResponse("text/html", MkHtml("T", "M", "H", <<PageB>>, <<>>), 404)
NonHtml(status) ==
    FetchResponse("text/plain", MkHtml("T", "M", "H", <<PageA>>, <<>>), status)
FetchOutcomes ==
    {HtmlPage(d) : d \in Docs}
        \cup {NotFoundPage}
        \cup {NonHtml(status) : status \in {200, 404}}
        \cup {AbortError, FetchFailed, ConnTimedOut}

\* tape[k] is what the k-th fetch() of one fetchPage() call does, if it is
\* made.  Every outcome comes first on some tape; some come after one failed
\* connection, and one tape fails three times.
NextFetch == HtmlPage(MkHtml("T", "M", "H", <<>>, <<>>))
FetchTapes ==
    {<<o, NextFetch, NextFetch>> : o \in FetchOutcomes}
        \cup {<<ConnTimedOut, o, NextFetch>> : o \in {NonHtml(200), AbortError}}
        \cup {<<ConnTimedOut, ConnTimedOut, ConnTimedOut>>}

\* What fetchPage() can resolve to.
Responses == {fetchPage(tape).pageData : tape \in FetchTapes}

\* ---------------------------------------------------------------- parsePage
OrNull(text) == IF text = "" THEN NullText ELSE text

\* The image loop calls `new URL(src, url)` outside any try/catch.
parsePageThrows(html) ==
    \E i \in 1..Len(html.imgs) : ~Resolves(html.imgs[i].src)

RECURSIVE ImageIssues(_)
ImageIssues(imgs) ==
    IF imgs = <<>> THEN <<>>
    ELSE (IF Head(imgs).alt = "" THEN <<"Image missing alt text">> ELSE <<>>)
         \o ImageIssues(Tail(imgs))

\* html.hrefs holds the href values that pass the prefix filter (not "#...",
\* "javascript:", "mailto:", "tel:", "data:", "vbscript:").
parsePage(url, html, status) ==
    LET title == OrNull(html.title)
        metaDescription == OrNull(html.meta)
        h1 == OrNull(html.h1)
        issues ==
            (IF title = NullText THEN <<"Missing title tag">> ELSE <<>>)
            \o (IF metaDescription = NullText THEN <<"Missing meta description">> ELSE <<>>)
            \o (IF h1 = NullText THEN <<"Missing H1 tag">> ELSE <<>>)
            \o (IF title # NullText /\ TextLen(title) > 60
                THEN <<"Title too long (>60 chars)">> ELSE <<>>)
            \o (IF metaDescription # NullText /\ TextLen(metaDescription) > 160
                THEN <<"Meta description too long (>160 chars)">> ELSE <<>>)
        links == SelectSeq(html.hrefs, Resolves)
        images == [i \in 1..Len(html.imgs) |->
                      [src |-> html.imgs[i].src, alt |-> OrNull(html.imgs[i].alt)]]
    IN  [url |-> url, status |-> status, title |-> title,
         metaDescription |-> metaDescription, h1 |-> h1,
         issues |-> issues \o ImageIssues(html.imgs),
         links |-> links, images |-> images]

\* Mutant: a failed fetch is recorded as a timeout.
FailedResult_AsTimeout(url) ==
    [url |-> url, status |-> 408, title |-> NullText,
     metaDescription |-> NullText, h1 |-> NullText,
     issues |-> <<>>, links |-> <<>>, images |-> <<>>]

\* The result processUrl stores when fetchPage returned null.
FailedResult(url) ==
    [url |-> url, status |-> 0, title |-> NullText,
     metaDescription |-> NullText, h1 |-> NullText,
     issues |-> <<"Failed to fetch page">>, links |-> <<>>, images |-> <<>>]

\* ------------------------------------------------------------------- state
VARIABLES
    maxDepth, maxPages, concurrency,   \* options
    onProgress,       \* option: whether a progress callback is provided
    queue,            \* QueueItem[]
    visited,          \* Set<string>
    results,          \* Map<string, CrawlResult>, in insertion order
    activeRequests,
    inflight,         \* processUrl() tasks suspended at `await fetchPage`
    crawlPc,          \* where crawl() is: "loop", "sleep", "done", "crashed"
    fetchLog,         \* history: the URLs fetchPage was called with, in order
    returned,         \* history: the tasks fetchPage returned to, and with what
    rejected,         \* URLs whose processUrl() promise rejected
    progress          \* history: the calls of onProgress, in order

crawlerVars == <<maxDepth, maxPages, concurrency, onProgress, queue, visited,
                 results, activeRequests, inflight, crawlPc, fetchLog, returned,
                 rejected, progress>>

\* RateLimiter (src/src/lib/formatter.ts).  Token amounts are held in units of
\* 1/TicksPerToken token, so that `elapsed * refillRate` is the number of clock
\* ticks elapsed; maxTokens and refillRate both equal requestsPerSecond.
VARIABLES
    requestsPerSecond,
    tokens,
    lastRefill,
    clock,            \* Date.now(), in ticks
    callers,          \* per task: idle, or suspended in acquire() at sleep()
    acquireCalls,     \* history: number of acquire() calls so far
    acquired          \* history: the acquire() calls that completed, in order

limiterVars == <<requestsPerSecond, tokens, lastRefill, clock, callers,
                 acquireCalls, acquired>>

\* withRetry (src/src/lib/formatter.ts).  Delays and times are in units of one
\* timer tick.
VARIABLES
    opts,             \* { ...DEFAULT_RETRY_OPTIONS, ...options }
    attempt,
    delay,
    lastError,
    retryPc,          \* "running" (in `await fn()`), "sleeping", "returned", "threw"
    retryClock,
    startedAt,        \* when the running attempt was started
    retryWakeAt,      \* when the timer of sleep(delay) is due
    fnCalls,          \* history: the invocations of fn that settled, in order
    sleeps,           \* history: the sleep(delay) calls, in order
    settled           \* what the promise of withRetry settled with

retryVars == <<opts, attempt, delay, lastError, retryPc, retryClock, startedAt,
               retryWakeAt, fnCalls, sleeps, settled>>

\* generateSummary (src/src/lib/crawler.ts).
VARIABLES
    summaryInput,     \* the argument `results`
    summaryPc,        \* "called", "returned"
    summary           \* the CrawlSummary returned

summaryVars == <<summaryInput, summaryPc, summary>>

utilVars == <<limiterVars, retryVars, summaryVars>>

vars == <<crawlerVars, utilVars>>

\* The limiter of a specification that does not run it.
LimiterUnused ==
    /\ requestsPerSecond = 0
    /\ tokens = 0
    /\ lastRefill = 0
    /\ clock = 0
    /\ callers = <<>>
    /\ acquireCalls = 0
    /\ acquired = <<>>

\* withRetry in a specification that does not run it.
RetryUnused ==
    /\ opts = <<>> /\ attempt = 0 /\ delay = 0 /\ lastError = <<>>
    /\ retryPc = "unused" /\ retryClock = 0 /\ startedAt = 0 /\ retryWakeAt = 0
    /\ fnCalls = <<>> /\ sleeps = <<>> /\ settled = <<>>

\* generateSummary in a specification that does not call it.
SummaryUnused == summaryInput = <<>> /\ summaryPc = "unused" /\ summary = <<>>

options == <<maxDepth, maxPages, concurrency, onProgress>>

\* Map<string, CrawlResult> as the sequence of its values in insertion order.
MapKeys(m) == {m[i].url : i \in 1..Len(m)}
MapHas(m, k) == k \in MapKeys(m)
MapSize(m) == Len(m)
MapSet(m, k, v) ==
    IF MapHas(m, k)
    THEN [i \in 1..Len(m) |-> IF m[i].url = k THEN v ELSE m[i]]
    ELSE Append(m, v)
MapGet(m, k) == m[CHOOSE i \in 1..Len(m) : m[i].url = k]

QueueItem(url, depth, foundOn) == [url |-> url, depth |-> depth, foundOn |-> foundOn]

\* foundOn of the seed is the string 'start'; the model gives it a URL-shaped
\* value no page has.
StartMarker == MkUrl("start", "", FALSE, FALSE)

\* The crawler after `new SiteCrawler(startUrl, options)`, but for the options.
Constructed(startUrl) ==
    /\ queue = <<QueueItem(normalizeUrl(startUrl), 0, StartMarker)>>
    /\ visited = {}
    /\ results = <<>>
    /\ activeRequests = 0
    /\ inflight = <<>>
    /\ crawlPc = "loop"
    /\ fetchLog = <<>>
    /\ returned = {}
    /\ rejected = {}
    /\ progress = <<>>

CrawlerInit ==
    /\ maxDepth \in 0..MaxDepthOpt
    /\ maxPages \in 1..MaxPagesOpt
    /\ concurrency \in 1..MaxConcurrencyOpt
    /\ onProgress = FALSE
    /\ Constructed(StartUrl)

Init == CrawlerInit /\ LimiterUnused /\ RetryUnused /\ SummaryUnused

\* -------------------------------------------------------------- processUrl
\* Up to `await this.fetchPage(item.url)`.
processUrlDrops(item) ==
    item.url \in visited \/ MapSize(results) >= maxPages

\* Mutant: the URL is not marked visited before the fetch suspends.
processUrlStart_NoMark(item) ==
    IF processUrlDrops(item)
    THEN UNCHANGED <<visited, activeRequests, inflight, fetchLog>>
    ELSE /\ visited' = visited
         /\ activeRequests' = activeRequests + 1
         /\ inflight' = Append(inflight, item)
         /\ fetchLog' = Append(fetchLog, item.url)

processUrlStart(item) ==
    IF processUrlDrops(item)
    THEN UNCHANGED <<visited, activeRequests, inflight, fetchLog>>
    ELSE /\ visited' = visited \cup {item.url}
         /\ activeRequests' = activeRequests + 1
         /\ inflight' = Append(inflight, item)
         /\ fetchLog' = Append(fetchLog, item.url)

\* Mutant: links to pages already visited are queued again.
RECURSIVE NewItems_Revisit(_, _)
NewItems_Revisit(item, links) ==
    IF links = <<>> THEN <<>>
    ELSE LET normalizedLink == normalizeUrl(Head(links))
         IN  (IF /\ isInternalUrl(normalizedLink)
                 /\ shouldCrawl(normalizedLink)
              THEN <<QueueItem(normalizedLink, item.depth + 1, item.url)>>
              ELSE <<>>)
             \o NewItems_Revisit(item, Tail(links))

\* The queue entries processUrl pushes for the links of a parsed page.
RECURSIVE NewItems(_, _)
NewItems(item, links) ==
    IF links = <<>> THEN <<>>
    ELSE LET normalizedLink == normalizeUrl(Head(links))
         IN  (IF /\ isInternalUrl(normalizedLink)
                 /\ normalizedLink \notin visited
                 /\ shouldCrawl(normalizedLink)
              THEN <<QueueItem(normalizedLink, item.depth + 1, item.url)>>
              ELSE <<>>)
             \o NewItems(item, Tail(links))

\* Mutant: the status of the page is not looked at.
expandsLinks_AnyStatus(item, status) == item.depth < maxDepth

\* Mutant: off by one in the depth test.
expandsLinks_Inclusive(item, status) == item.depth <= maxDepth /\ status = 200

expandsLinks(item, status) == item.depth < maxDepth /\ status = 200

\* Mutant: nothing is stored for a failed fetch.
storeFailed_Skip(item) == results' = results

\* The else branch of `if (pageData)`.
storeFailed(item) == results' = MapSet(results, item.url, FailedResult(item.url))

RemoveAt(s, i) == [j \in 1..(Len(s) - 1) |-> IF j < i THEN s[j] ELSE s[j + 1]]

\* The last statement of processUrl, run after the result is stored and
\* activeRequests decremented: onProgress(results.size, queue.length), if the
\* callback is provided.  The history names the task that made the call.
reportProgress(item) ==
    progress' =
        IF onProgress
        THEN Append(progress, [by |-> item.url, crawled |-> MapSize(results'),
                               queued |-> Len(queue'),
                               active |-> activeRequests'])
        ELSE progress

\* From the return of fetchPage to the end of processUrl.
processUrlResume(i, pageData) ==
    LET item == inflight[i] IN
    /\ inflight' = RemoveAt(inflight, i)
    /\ IF pageData.kind = "null"
       THEN /\ storeFailed(item)
            /\ activeRequests' = activeRequests - 1
            /\ UNCHANGED <<queue, rejected>>
            /\ reportProgress(item)
       ELSE IF parsePageThrows(pageData.html)
       THEN \* the exception leaves processUrl: nothing below runs
            /\ rejected' = rejected \cup {item.url}
            /\ UNCHANGED <<results, queue, activeRequests, progress>>
       ELSE LET result == parsePage(item.url, pageData.html, pageData.status) IN
            /\ results' = MapSet(results, item.url, result)
            /\ queue' = IF expandsLinks(item, pageData.status)
                        THEN queue \o NewItems(item, result.links)
                        ELSE queue
            /\ activeRequests' = activeRequests - 1
            /\ UNCHANGED rejected
            /\ reportProgress(item)

\* ------------------------------------------------------------------- crawl
\* Mutant: the admission test forgets the concurrency cap.
innerCondition_NoCap ==
    /\ Len(queue) > 0
    /\ MapSize(results) < maxPages

innerCondition ==
    /\ Len(queue) > 0
    /\ activeRequests < concurrency
    /\ MapSize(results) < maxPages

\* Mutant: the outer loop forgets the fetches in flight.
outerCondition_QueueOnly == Len(queue) > 0

outerCondition == Len(queue) > 0 \/ activeRequests > 0

\* One iteration of the inner while loop.
CrawlAdmit ==
    /\ crawlPc = "loop"
    /\ innerCondition
    /\ queue' = Tail(queue)
    /\ IF Head(queue).url \notin visited
       THEN processUrlStart(Head(queue))
       ELSE UNCHANGED <<visited, activeRequests, inflight, fetchLog>>
    /\ UNCHANGED <<options, results, crawlPc, returned, rejected, progress>>
    /\ UNCHANGED utilVars

\* The inner loop ends; crawl() awaits its 100 ms timer.
CrawlYield ==
    /\ crawlPc = "loop"
    /\ ~innerCondition
    /\ crawlPc' = "sleep"
    /\ UNCHANGED <<options, queue, visited, results, activeRequests, inflight,
                   fetchLog, returned, rejected, progress>>
    /\ UNCHANGED utilVars

\* The timer fires; the outer while condition is evaluated.
CrawlWake ==
    /\ crawlPc = "sleep"
    /\ crawlPc' = IF outerCondition THEN "loop" ELSE "done"
    /\ UNCHANGED <<options, queue, visited, results, activeRequests, inflight,
                   fetchLog, returned, rejected, progress>>
    /\ UNCHANGED utilVars

\* History: the task fetchPage returned to, what it returned, how many
\* fetches it made, and what its fetches do (without bodies and messages).
Fetch(outcome) ==
    IF outcome.kind = "thrown"
    THEN [kind |-> "thrown", name |-> outcome.name]
    ELSE [kind |-> "response", contentType |-> outcome.contentType,
          status |-> outcome.status]
Returned(item, tape, fetched) ==
    [item |-> item, pageData |-> fetched.pageData, attempts |-> fetched.attempts,
     acquires |-> fetched.acquires,
     fetches |-> [k \in 1..Len(tape) |-> Fetch(tape[k])]]

\* A fetchPage() promise settles while no synchronous section of crawl() runs:
\* crawl() sleeps, or has returned.
FetchReturnsOn(tapes, responses) ==
    /\ crawlPc \in {"sleep", "done"}
    /\ \E i \in 1..Len(inflight) : \E tape \in tapes :
          LET fetched == fetchPage(tape) IN
          /\ fetched.pageData \in responses
          /\ processUrlResume(i, fetched.pageData)
          /\ returned' = returned \cup {Returned(inflight[i], tape, fetched)}
    /\ UNCHANGED <<options, visited, crawlPc, fetchLog>>
    /\ UNCHANGED utilVars

FetchReturnsFrom(responses) == FetchReturnsOn(FetchTapes, responses)

FetchReturns == FetchReturnsFrom(Responses)

\* Nothing handles the rejection of a processUrl() promise; Node may end the
\* process on it (the default since Node 15) or only warn.
UnhandledRejection ==
    /\ crawlPc = "sleep"
    /\ rejected # {}
    /\ crawlPc' = "crashed"
    /\ UNCHANGED <<options, queue, visited, results, activeRequests, inflight,
                   fetchLog, returned, rejected, progress>>
    /\ UNCHANGED utilVars

Next ==
    \/ CrawlAdmit
    \/ CrawlYield
    \/ CrawlWake
    \/ FetchReturns
    \/ UnhandledRejection

Spec == Init /\ [][Next]_vars

\* The crawl of a site none of whose pages makes parsePage throw, under the
\* scheduling the runtime guarantees: timers fire, the synchronous sections
\* of crawl() run, and every fetch settles.  A fetch can settle only while
\* crawl() sleeps, which it does again and again, hence strong fairness.
ParsableResponses ==
    {r \in Responses : r.kind = "page" => ~parsePageThrows(r.html)}

FetchReturnsParsable == FetchReturnsFrom(ParsableResponses)

NextParsable ==
    \/ CrawlAdmit
    \/ CrawlYield
    \/ CrawlWake
    \/ FetchReturnsParsable

FairSpec ==
    /\ Init /\ [][NextParsable]_vars
    /\ WF_vars(CrawlAdmit) /\ WF_vars(CrawlYield) /\ WF_vars(CrawlWake)
    /\ SF_vars(FetchReturnsParsable)

\* The crawl of a site that links to skip-listed addresses, from a start URL
\* that may itself be one.  Every fetch answers at once with an HTML page.
SkipStartUrls == {StartUrl, PdfUrl}

SkipDocs ==
    {MkHtml("T", "M", "H", ls, <<>>) :
        ls \in {<<>>, <<PdfUrl, PdfUpperUrl>>, <<FeedUrl, PageA>>, <<PdfQueryUrl>>}}
        \cup {BadImgDoc}

SkipTapes == {<<HtmlPage(d), NextFetch, NextFetch>> : d \in SkipDocs}

SkipResponses == {fetchPage(tape).pageData : tape \in SkipTapes}

SkipFetchReturns == FetchReturnsOn(SkipTapes, SkipResponses)

SkipNext ==
    \/ CrawlAdmit
    \/ CrawlYield
    \/ CrawlWake
    \/ SkipFetchReturns
    \/ UnhandledRejection

SkipSpecInit ==
    /\ maxDepth \in 0..MaxDepthOpt
    /\ maxPages \in 1..MaxPagesOpt
    /\ concurrency \in 1..MaxConcurrencyOpt
    /\ onProgress = FALSE
    /\ \E startUrl \in SkipStartUrls : Constructed(startUrl)
    /\ LimiterUnused
    /\ RetryUnused
    /\ SummaryUnused

SkipSpec == SkipSpecInit /\ [][SkipNext]_vars

\* The crawl of Spec with a progress callback provided.
ProgressSpecInit ==
    /\ maxDepth \in 0..MaxDepthOpt
    /\ maxPages \in 1..MaxPagesOpt
    /\ concurrency \in 1..MaxConcurrencyOpt
    /\ onProgress = TRUE
    /\ Constructed(StartUrl)
    /\ LimiterUnused
    /\ RetryUnused
    /\ SummaryUnused

ProgressSpec == ProgressSpecInit /\ [][Next]_vars

\* The crawl of a deeper site, with the default maxDepth: five pages below
\* the start page, every fetch answering at once with an HTML page that has
\* one of a few link lists.
DefaultMaxDepth == 3
DeepMaxPages == 6

PageC == MkUrl(BaseHost, "c", FALSE, FALSE)
PageD == MkUrl(BaseHost, "d", FALSE, FALSE)
PageE == MkUrl(BaseHost, "e", FALSE, FALSE)

DeepDocs ==
    {MkHtml("T", "M", "H", ls, <<>>) :
        ls \in {<<>>, <<PageA, PageB>>, <<PageC>>, <<PageD>>, <<PageD, PageE>>}}
        \cup {BadImgDoc}

DeepTapes == {<<HtmlPage(d), NextFetch, NextFetch>> : d \in DeepDocs}

DeepResponses == {fetchPage(tape).pageData : tape \in DeepTapes}

DeepFetchReturns == FetchReturnsOn(DeepTapes, DeepResponses)

DeepNext ==
    \/ CrawlAdmit
    \/ CrawlYield
    \/ CrawlWake
    \/ DeepFetchReturns
    \/ UnhandledRejection

DeepSpecInit ==
    /\ maxDepth = DefaultMaxDepth
    /\ maxPages = DeepMaxPages
    /\ concurrency \in 1..MaxConcurrencyOpt
    /\ onProgress = FALSE
    /\ Constructed(StartUrl)
    /\ LimiterUnused
    /\ RetryUnused
    /\ SummaryUnused

DeepSpec == DeepSpecInit /\ [][DeepNext]_vars

\* ------------------------------------------------------------- RateLimiter
\* The crawler of a specification that does not run it.
CrawlerUnused ==
    /\ maxDepth = 0 /\ maxPages = 0 /\ concurrency = 0 /\ onProgress = FALSE
    /\ queue = <<>> /\ visited = {} /\ results = <<>>
    /\ activeRequests = 0 /\ inflight = <<>> /\ crawlPc = "unused"
    /\ fetchLog = <<>> /\ returned = {} /\ rejected = {} /\ progress = <<>>

OneToken == TicksPerToken
maxTokens == requestsPerSecond * TicksPerToken
OneSecond == requestsPerSecond * TicksPerToken
MaxClock == HorizonSeconds * OneSecond

Min(a, b) == IF a <= b THEN a ELSE b

\* Mutant: refill() without the cap at maxTokens.
refilled_NoCap == tokens + (clock - lastRefill)

\* this.tokens after refill(): Math.min(maxTokens, tokens + elapsed * refillRate).
refilled == Min(maxTokens, tokens + (clock - lastRefill))

\* The delay acquire() passes to sleep(), in ticks:
\* ((1 - tokens) / refillRate) * 1000 ms.
waitTime(balance) == OneToken - balance

Idle == [pc |-> "idle"]
Sleeping(call, balance) ==
    [pc |-> "sleeping", call |-> call, issuedAt |-> clock,
     balance |-> balance, wakeAt |-> clock + waitTime(balance)]

\* A completed acquire(): which call it was, when it was issued, the token
\* balance it found after its first refill(), and when it completed.
Completion(call, issuedAt, balance) ==
    [call |-> call, issuedAt |-> issuedAt, balance |-> balance, at |-> clock]

LimiterInit ==
    /\ requestsPerSecond \in 1..MaxRate
    /\ tokens = requestsPerSecond * TicksPerToken
    /\ lastRefill = 0
    /\ clock = 0
    /\ callers = [p \in 1..NumCallers |-> Idle]
    /\ acquireCalls = 0
    /\ acquired = <<>>

\* acquire() up to its return or its `await sleep(waitTime)`.
AcquireCall(p) ==
    /\ callers[p].pc = "idle"
    /\ acquireCalls < MaxAcquires
    /\ acquireCalls' = acquireCalls + 1
    /\ lastRefill' = clock
    /\ IF refilled >= OneToken
       THEN /\ tokens' = refilled - OneToken
            /\ acquired' = Append(acquired, Completion(acquireCalls + 1, clock, refilled))
            /\ UNCHANGED callers
       ELSE /\ tokens' = refilled
            /\ callers' = [callers EXCEPT ![p] = Sleeping(acquireCalls + 1, refilled)]
            /\ UNCHANGED acquired
    /\ UNCHANGED <<requestsPerSecond, clock, crawlerVars, retryVars, summaryVars>>

\* The timer of sleep() fires: refill(), then tokens -= 1, unconditionally.
AcquireResume(p) ==
    /\ callers[p].pc = "sleeping"
    /\ clock >= callers[p].wakeAt
    /\ lastRefill' = clock
    /\ tokens' = refilled - OneToken
    /\ acquired' = Append(acquired,
                      Completion(callers[p].call, callers[p].issuedAt, callers[p].balance))
    /\ callers' = [callers EXCEPT ![p] = Idle]
    /\ UNCHANGED <<requestsPerSecond, clock, acquireCalls, crawlerVars, retryVars, summaryVars>>

\* Time passes.  Timers fire when due: the clock does not pass a sleeper's
\* wake-up time.
Tick ==
    /\ clock < MaxClock
    /\ \A p \in 1..NumCallers :
          callers[p].pc = "sleeping" => clock < callers[p].wakeAt
    /\ clock' = clock + 1
    /\ UNCHANGED <<requestsPerSecond, tokens, lastRefill, callers, acquireCalls,
                   acquired, crawlerVars, retryVars, summaryVars>>

LimiterNext ==
    \/ \E p \in 1..NumCallers : AcquireCall(p)
    \/ \E p \in 1..NumCallers : AcquireResume(p)
    \/ Tick

LimiterSpecInit == CrawlerUnused /\ LimiterInit /\ RetryUnused /\ SummaryUnused

LimiterSpec == LimiterSpecInit /\ [][LimiterNext]_vars

\* --------------------------------------------------------------- withRetry
Messages == {"timeout", "fatal"}
FnOutcomes ==
    {Value("success")}
        \cup {Thrown(TRUE, m, "fn") : m \in Messages}
        \cup {Thrown(FALSE, "fatal", "fn")}

\* Mutant: every error is retried.
retryOn_Always(error) == TRUE

\* opts.retryOn, a predicate on the error; the model holds it as the set of
\* messages it accepts.  The default accepts every error.
retryOn(error) == error.message \in opts.retryOn

\* Mutant: the last attempt is taken to be the one before it.
isLastAttempt_Early == attempt + 1 >= opts.maxRetries

\* attempt === opts.maxRetries
isLastAttempt == attempt = opts.maxRetries

Sleep(ms) == [from |-> retryClock, ms |-> ms]
FnCall(outcome) == [startedAt |-> startedAt, at |-> retryClock, outcome |-> outcome]

RetryOptions ==
    [maxRetries : 0..MaxRetriesOpt, initialDelay : 0..MaxInitialDelay,
     maxDelay : 1..MaxMaxDelay, backoffFactor : 1..MaxBackoffFactor,
     retryOn : SUBSET Messages]

\* withRetry(fn, options) up to the first `await fn()`.
RetryInit ==
    /\ opts \in RetryOptions
    /\ attempt = 0
    /\ delay = opts.initialDelay
    /\ lastError = Undefined
    /\ retryPc = "running"
    /\ retryClock = 0
    /\ startedAt = 0
    /\ retryWakeAt = 0
    /\ fnCalls = <<>>
    /\ sleeps = <<>>
    /\ settled = Undefined

\* fn() settles: withRetry returns its value, or runs the catch block up to
\* the throw after the loop or to `await sleep(delay)`.
FnSettles(outcome) ==
    /\ retryPc = "running"
    /\ fnCalls' = Append(fnCalls, FnCall(outcome))
    /\ IF outcome.kind = "value"
       THEN /\ retryPc' = "returned"
            /\ settled' = outcome
            /\ UNCHANGED <<lastError, sleeps, retryWakeAt>>
       ELSE /\ lastError' = toError(outcome)
            /\ IF isLastAttempt \/ ~retryOn(toError(outcome))
               THEN /\ retryPc' = "threw"
                    /\ settled' = toError(outcome)
                    /\ UNCHANGED <<sleeps, retryWakeAt>>
               ELSE /\ retryPc' = "sleeping"
                    /\ sleeps' = Append(sleeps, Sleep(delay))
                    /\ retryWakeAt' = retryClock + delay
                    /\ UNCHANGED settled
    /\ UNCHANGED <<opts, attempt, delay, retryClock, startedAt>>
    /\ UNCHANGED <<crawlerVars, limiterVars, summaryVars>>

\* The timer of sleep(delay) fires: the delay grows, attempt++, and the loop
\* either invokes fn again or ends at `throw lastError`.
RetryWake ==
    /\ retryPc = "sleeping"
    /\ retryClock >= retryWakeAt
    /\ delay' = Min(delay * opts.backoffFactor, opts.maxDelay)
    /\ attempt' = attempt + 1
    /\ IF attempt + 1 <= opts.maxRetries
       THEN /\ retryPc' = "running"
            /\ startedAt' = retryClock
            /\ UNCHANGED settled
       ELSE /\ retryPc' = "threw"
            /\ settled' = lastError
            /\ UNCHANGED startedAt
    /\ UNCHANGED <<opts, lastError, retryClock, retryWakeAt, fnCalls, sleeps>>
    /\ UNCHANGED <<crawlerVars, limiterVars, summaryVars>>

\* Time passes while fn runs or the timer is pending; the timer fires when due.
RetryTick ==
    /\ \/ retryPc = "running" /\ retryClock - startedAt < MaxFnTicks
       \/ retryPc = "sleeping" /\ retryClock < retryWakeAt
    /\ retryClock' = retryClock + 1
    /\ UNCHANGED <<opts, attempt, delay, lastError, retryPc, startedAt,
                   retryWakeAt, fnCalls, sleeps, settled>>
    /\ UNCHANGED <<crawlerVars, limiterVars, summaryVars>>

RetryNext ==
    \/ \E outcome \in FnOutcomes : FnSettles(outcome)
    \/ RetryWake
    \/ RetryTick

RetrySpecInit == CrawlerUnused /\ LimiterUnused /\ RetryInit /\ SummaryUnused

RetrySpec == RetrySpecInit /\ [][RetryNext]_vars

\* --------------------------------------------------------- generateSummary
\* `!x` for x: string | null.
Falsy(text) == text = NullText \/ text = ""

RECURSIVE Concat(_)
Concat(seqs) == IF seqs = <<>> THEN <<>> ELSE Head(seqs) \o Concat(Tail(seqs))

\* The string 'unknown', as a URL-shaped value no result has.
Unknown == MkUrl("unknown", "", FALSE, FALSE)

\* results.find(r => r.links.includes(url))?.url || 'unknown'
foundOn(rs, url) ==
    LET linking == {i \in 1..Len(rs) : \E k \in 1..Len(rs[i].links) : rs[i].links[k] = url}
    IN  IF linking = {} THEN Unknown
        ELSE rs[CHOOSE i \in linking : \A j \in linking : i <= j].url

\* Mutant: only HTTP error statuses count as broken.
isBroken_HttpErrorsOnly(result) == result.status > 400

\* result.status >= 400 || result.status === 0
isBroken(result) == result.status >= 400 \/ result.status = 0

\* Mutant: the page checks are made on every result.
isCrawledPage_AnyStatus(result) == TRUE

\* result.status === 200
isCrawledPage(result) == result.status = 200

\* The entries one result adds to each list, in the order of the loop body.
brokenLinksOf(rs, result) ==
    IF isBroken(result)
    THEN <<[url |-> result.url, status |-> result.status, foundOn |-> foundOn(rs, result.url)]>>
    ELSE <<>>
missingOf(result, text) ==
    IF isCrawledPage(result) /\ Falsy(text) THEN <<result.url>> ELSE <<>>
missingAltTextOf(result) ==
    IF isCrawledPage(result)
    THEN Concat([j \in 1..Len(result.images) |->
                   IF Falsy(result.images[j].alt)
                   THEN <<[page |-> result.url, image |-> result.images[j].src]>>
                   ELSE <<>>])
    ELSE <<>>

\* titleMap as the sequence of its entries, in insertion order.
titleMap(rs) ==
    LET titled == SelectSeq(rs, LAMBDA r : isCrawledPage(r) /\ ~Falsy(r.title))
        pages(title) ==
            LET carrying == SelectSeq(titled, LAMBDA r : r.title = title)
            IN  [k \in 1..Len(carrying) |-> carrying[k].url]
    IN  Concat([i \in 1..Len(titled) |->
                  IF \A j \in 1..(i - 1) : titled[j].title # titled[i].title
                  THEN <<[title |-> titled[i].title, pages |-> pages(titled[i].title)]>>
                  ELSE <<>>])

\* Mutant: every title with a page is reported.
isDuplicate_AnyTitle(pages) == Len(pages) > 0

\* pages.length > 1
isDuplicate(pages) == Len(pages) > 1

generateSummary(rs) ==
    [totalPages |-> Len(SelectSeq(rs, LAMBDA r : r.status = 200)),
     brokenLinks |-> Concat([i \in 1..Len(rs) |-> brokenLinksOf(rs, rs[i])]),
     missingTitles |-> Concat([i \in 1..Len(rs) |-> missingOf(rs[i], rs[i].title)]),
     missingMetaDescriptions |->
         Concat([i \in 1..Len(rs) |-> missingOf(rs[i], rs[i].metaDescription)]),
     missingH1s |-> Concat([i \in 1..Len(rs) |-> missingOf(rs[i], rs[i].h1)]),
     missingAltText |-> Concat([i \in 1..Len(rs) |-> missingAltTextOf(rs[i])]),
     duplicateTitles |-> SelectSeq(titleMap(rs), LAMBDA e : isDuplicate(e.pages))]

\* The CrawlResult values the model calls generateSummary with: every status
\* with every pattern of present, null and empty texts; results with images;
\* results with links; results with the statuses 400 and 500.
CrawlResult(url, status, texts, links, images) ==
    [url |-> url, status |-> status, title |-> texts[1],
     metaDescription |-> texts[2], h1 |-> texts[3],
     issues |-> <<>>, links |-> links, images |-> images]
Texts ==
    {<<"T", "M", "H">>, <<"U", "M", "H">>, <<NullText, NullText, NullText>>,
     <<NullText, "M", "H">>, <<"T", NullText, "H">>, <<"T", "M", NullText>>,
     <<"", "", "">>}
Statuses == {200, 301, 404, 0}
SomeImages ==
    <<[src |-> PageA, alt |-> NullText], [src |-> PageB, alt |-> "x"],
      [src |-> External, alt |-> ""]>>
SummaryResults ==
    {CrawlResult(u, st, t, <<>>, <<>>) : u \in {PageA, PageB}, st \in Statuses, t \in Texts}
        \cup {CrawlResult(u, st, <<"T", "M", "H">>, <<>>, SomeImages) :
                 u \in {PageA, PageB}, st \in {200, 404}}
        \cup {CrawlResult(u, st, <<"T", "M", "H">>, <<l>>, <<>>) :
                 u \in {PageA, PageB}, st \in {200, 404}, l \in {PageA, PageB}}
        \cup {CrawlResult(u, st, <<NullText, NullText, NullText>>, <<>>, <<>>) :
                 u \in {PageA, PageB}, st \in {400, 500}}

SummaryInit ==
    /\ summaryInput \in UNION {[1..n -> SummaryResults] : n \in 0..MaxResults}
    /\ summaryPc = "called"
    /\ summary = <<>>

GenerateSummary ==
    /\ summaryPc = "called"
    /\ summary' = generateSummary(summaryInput)
    /\ summaryPc' = "returned"
    /\ UNCHANGED <<summaryInput, crawlerVars, limiterVars, retryVars>>

SummarySpecInit == CrawlerUnused /\ LimiterUnused /\ RetryUnused /\ SummaryInit

SummarySpec == SummarySpecInit /\ [][GenerateSummary]_vars

\* ------------------------------------------------------------------ claims
Occurrences(seq, x) == Cardinality({i \in 1..Len(seq) : seq[i] = x})
QueueUrls == {queue[i].url : i \in 1..Len(queue)}
InflightUrls == {inflight[i].url : i \in 1..Len(inflight)}
Returned200(h) == h.pageData.kind = "page" /\ h.pageData.status = 200

\* C1: in every reachable state the results map holds at most maxPages
\* entries.
C1_PageBudget == MapSize(results) <= maxPages

\* C2: if every fetch settles, crawl() eventually returns (checked under
\* FairSpec).
C2_Termination == <>(crawlPc = "done")

\* C3: fetchPage is started at most once per normalized URL, no two tasks in
\* flight hold the same URL, and a URL in flight is already in the visited set.
C3_SingleFlight ==
    /\ \A i \in 1..Len(fetchLog) : Occurrences(fetchLog, fetchLog[i]) = 1
    /\ \A i, j \in 1..Len(inflight) : inflight[i].url = inflight[j].url => i = j
    /\ InflightUrls \subseteq visited

\* The crawl is over, a page listed the same target twice (as /a and as
\* /a/#...), its links were expanded, and the target was fetched.
C3_Witness ==
    /\ crawlPc = "done"
    /\ \E h \in returned :
          /\ Returned200(h)
          /\ h.item.depth < maxDepth
          /\ h.pageData.html.hrefs = <<PageA, PageASlashHash>>
    /\ Occurrences(fetchLog, PageA) = 1

\* C4: activeRequests stays within 0..concurrency, and so does the number of
\* fetches in flight.
C4_ConcurrencyBound ==
    /\ activeRequests >= 0
    /\ activeRequests <= concurrency
    /\ Len(inflight) <= concurrency

\* The cap is reached with more than one fetch in flight and a target waiting.
C4_Witness ==
    /\ concurrency >= 2
    /\ Len(inflight) = concurrency
    /\ Len(queue) > 0

\* C5: no queue entry and no fetched target has depth > maxDepth, and the
\* links of a page at depth maxDepth leave no queue entry.
C5_DepthCeiling ==
    /\ \A i \in 1..Len(queue) : queue[i].depth <= maxDepth
    /\ \A i \in 1..Len(inflight) : inflight[i].depth <= maxDepth
    /\ \A h \in returned :
          h.item.depth >= maxDepth =>
             \A i \in 1..Len(queue) : queue[i].foundOn # h.item.url

\* A page at depth maxDepth >= 1 came back 200 with a link to an internal page
\* that was never visited.
C5_Witness ==
    /\ maxDepth >= 1
    /\ \E h \in returned :
          /\ h.item.depth = maxDepth
          /\ Returned200(h)
          /\ h.pageData.html.hrefs = <<PageB>>
          /\ PageB \notin visited
          /\ MapHas(results, h.item.url)

\* C6: every key of the results map, and every URL queued, visited or
\* fetched, has the hostname of the start URL.
C6_ScopeContainment ==
    /\ \A u \in MapKeys(results) : u.host = StartUrl.host
    /\ \A u \in QueueUrls \cup visited \cup InflightUrls : u.host = StartUrl.host
    /\ \A i \in 1..Len(fetchLog) : fetchLog[i].host = StartUrl.host

\* A stored 200 page below the depth limit links to another host.
C6_Witness ==
    \E h \in returned :
       /\ Returned200(h)
       /\ h.item.depth < maxDepth
       /\ MapHas(results, h.item.url)
       /\ \E i \in 1..Len(MapGet(results, h.item.url).links) :
             MapGet(results, h.item.url).links[i].host # StartUrl.host

\* C7: every key of the results map is in the visited set, and when crawl()
\* has returned every visited URL has exactly one result in the sequence.
C7_OneResultPerVisited ==
    /\ MapKeys(results) \subseteq visited
    /\ crawlPc = "done" =>
          \A u \in visited :
             Cardinality({i \in 1..Len(results) : results[i].url = u}) = 1

\* crawl() has returned after visiting all three pages.
C7_Witness ==
    /\ crawlPc = "done"
    /\ visited = {StartUrl, PageA, PageB}

\* C8: crawl() has returned only with an empty queue, activeRequests = 0 and
\* nothing in flight, and no later step changes the results map or the queue.
C8_ReturnsWhenDrained ==
    /\ [](crawlPc = "done" =>
             queue = <<>> /\ activeRequests = 0 /\ inflight = <<>>)
    /\ [][crawlPc = "done" => results' = results /\ queue' = queue]_vars

\* crawl() has returned a sequence of at least two results.
C8_Witness ==
    /\ crawlPc = "done"
    /\ MapSize(results) >= 2
    /\ concurrency >= 2

\* C9: a URL whose fetch returned null has the result {status 0, null texts,
\* no links, no images, the one issue "Failed to fetch page"}, no queue entry
\* was found on it, its task did not reject and it released its slot.
C9_FailedFetchIsData ==
    /\ \A h \in returned :
          h.pageData.kind = "null" =>
             /\ MapHas(results, h.item.url)
             /\ LET r == MapGet(results, h.item.url) IN
                   /\ r.url = h.item.url
                   /\ r.status = 0
                   /\ r.title = NullText
                   /\ r.metaDescription = NullText
                   /\ r.h1 = NullText
                   /\ r.links = <<>>
                   /\ r.images = <<>>
                   /\ r.issues = <<"Failed to fetch page">>
             /\ \A i \in 1..Len(queue) : queue[i].foundOn # h.item.url
             /\ h.item.url \notin rejected
    /\ rejected = {} => activeRequests = Len(inflight)

\* With one fetch at a time, a fetch returned null and a target queued behind
\* it was fetched and stored afterwards.
C9_Witness ==
    /\ concurrency = 1
    /\ \E i, j \in 1..Len(results) :
          /\ i < j
          /\ results[i].status = 0
          /\ \E h \in returned :
                /\ h.item = QueueItem(results[i].url, 1, StartUrl)
                /\ h.pageData = NullResponse

\* C10: whatever fetchPage returned, processUrl ended normally: no task
\* rejected, the URL has a result, and activeRequests counts exactly the
\* fetches still in flight.
C10_NoExceptionEscapes ==
    /\ rejected = {}
    /\ \A h \in returned : MapHas(results, h.item.url)
    /\ activeRequests = Len(inflight)

\* Completions of acquire() in the window of one second that starts at time t.
CompletionsFrom(t) ==
    Cardinality({j \in 1..Len(acquired) :
                    acquired[j].at >= t /\ acquired[j].at < t + OneSecond})

\* C11: every window of one second holds at most requestsPerSecond + 1
\* completions of acquire() (checked under LimiterSpec; a window with the most
\* completions starts at a completion).
C11_RateBound ==
    \A i \in 1..Len(acquired) :
       CompletionsFrom(acquired[i].at) <= requestsPerSecond + 1

\* C12: the token balance never goes below -1 token, whatever the number of
\* callers suspended in acquire() at once (checked under LimiterSpec).
C12_NoTokenSpentTwice == tokens >= -OneToken

\* C13: the first requestsPerSecond calls of acquire() complete without
\* suspending; a call that finds at least one token completes at once; a call
\* that finds a balance below one token completes (1 - balance) / refillRate
\* after it was issued, not before; the balance never exceeds maxTokens
\* (checked under LimiterSpec).
C13_BurstThenDelay ==
    /\ \A p \in 1..NumCallers :
          callers[p].pc = "sleeping" =>
             /\ callers[p].call > requestsPerSecond
             /\ callers[p].balance < TicksPerToken
             /\ clock <= callers[p].issuedAt + (TicksPerToken - callers[p].balance)
    /\ \A i \in 1..Len(acquired) :
          LET c == acquired[i] IN
             /\ c.call <= requestsPerSecond => c.at = c.issuedAt
             /\ c.balance >= TicksPerToken => c.at = c.issuedAt
             /\ c.balance < TicksPerToken =>
                   c.at = c.issuedAt + (TicksPerToken - c.balance)
    /\ tokens <= requestsPerSecond * TicksPerToken

\* With requestsPerSecond = 2: two calls completed at once, a third found an
\* empty bucket and completed after its wait, and the bucket has since
\* refilled to its cap.
C13_Witness ==
    /\ requestsPerSecond = 2
    /\ Len(acquired) >= 3
    /\ \E i \in 1..Len(acquired) :
          /\ acquired[i].call = 3
          /\ acquired[i].balance = 0
          /\ acquired[i].at > acquired[i].issuedAt
    /\ clock > lastRefill + requestsPerSecond * TicksPerToken

\* C14 (retry count): with maxRetries = n, fn is invoked at most n + 1 times;
\* an invocation that succeeds is the last one, and withRetry returns its
\* value; when every invocation fails and retryOn accepts every error, a run
\* that has ended made exactly n + 1 invocations and raised.
Failed(i) == fnCalls[i].outcome.kind = "thrown"
C14_RetryCount ==
    retryPc # "unused" =>
        /\ Len(fnCalls) <= opts.maxRetries + 1
        /\ \A i \in 1..Len(fnCalls) :
              ~Failed(i) =>
                  /\ i = Len(fnCalls)
                  /\ retryPc = "returned"
                  /\ settled = fnCalls[i].outcome
        /\ ( /\ retryPc \in {"returned", "threw"}
             /\ opts.retryOn = Messages
             /\ \A i \in 1..Len(fnCalls) : Failed(i) )
           => (Len(fnCalls) = opts.maxRetries + 1 /\ retryPc = "threw")
C14_Witness ==
    /\ retryPc = "threw"
    /\ opts.maxRetries = 2
    /\ opts.retryOn = Messages
    /\ Len(fnCalls) = 3
    /\ Len(sleeps) = 2

\* C15 (stop on a non-retryable error): an attempt that fails with an error
\* retryOn rejects is the last attempt, no sleep follows it, and withRetry
\* raises that same error; in every failing run the error raised is the error
\* of the last attempt made.
Rejected(i) == Failed(i) /\ fnCalls[i].outcome.message \notin opts.retryOn
LastCall == fnCalls[Len(fnCalls)]
StopsAt(i) == i = Len(fnCalls) /\ Len(sleeps) = i - 1 /\ retryPc = "threw"
C15_RaisesSameError ==
    retryPc # "unused" =>
        /\ \A i \in 1..Len(fnCalls) :
              Rejected(i) => (StopsAt(i) /\ settled = fnCalls[i].outcome)
        /\ retryPc = "threw" => settled = LastCall.outcome

\* C15 as amended: the same, except that a thrown value that is not an Error
\* is raised as a new Error whose message is the string form of that value.
RaisedFor(thrown) ==
    IF thrown.isError THEN thrown ELSE Thrown(TRUE, thrown.message, "withRetry")
C15_RaisesLastError ==
    retryPc # "unused" =>
        /\ \A i \in 1..Len(fnCalls) :
              Rejected(i) => (StopsAt(i) /\ settled = RaisedFor(fnCalls[i].outcome))
        /\ retryPc = "threw" => settled = RaisedFor(LastCall.outcome)
C15_Witness ==
    /\ retryPc = "threw"
    /\ opts.maxRetries = 2
    /\ opts.retryOn = {"timeout"}
    /\ Len(fnCalls) = 2
    /\ fnCalls[1].outcome = Thrown(TRUE, "timeout", "fn")
    /\ fnCalls[2].outcome = Thrown(TRUE, "fatal", "fn")
    /\ Len(sleeps) = 1
    /\ settled = Thrown(TRUE, "fatal", "fn")

\* C16 (exponential backoff): the sleep after failed attempt k (k = 0, 1, ...)
\* lasts initialDelay * backoffFactor^k capped at maxDelay, it starts when
\* that attempt fails, and attempt k + 1 does not start before it has elapsed.
RECURSIVE Pow(_, _)
Pow(b, e) == IF e = 0 THEN 1 ELSE b * Pow(b, e - 1)
C16_ExponentialBackoff ==
    retryPc # "unused" =>
        \A i \in 1..Len(sleeps) :
            /\ sleeps[i].ms =
                  Min(opts.initialDelay * Pow(opts.backoffFactor, i - 1), opts.maxDelay)
            /\ Failed(i) /\ sleeps[i].from = fnCalls[i].at
            /\ Len(fnCalls) > i =>
                  fnCalls[i + 1].startedAt >= sleeps[i].from + sleeps[i].ms
            /\ (retryPc = "running" /\ attempt = i) =>
                  startedAt >= sleeps[i].from + sleeps[i].ms

\* C17 (delay cap): every sleep between two attempts lasts at most maxDelay.
C17_DelayCap ==
    retryPc # "unused" =>
        \A i \in 1..Len(sleeps) : sleeps[i].ms <= opts.maxDelay

\* C18 (a timeout is a 408 result): when the last fetch of a fetchPage() call
\* was aborted by its timeout, fetchPage returned {html: '', status: 408}, the
\* URL has the parsed result of an empty page with status 408 (not the
\* status-0 result), nothing was enqueued from it, and its task ended normally.
LastFetch(h) == h.fetches[h.attempts]
FoundOn(url) ==
    {i \in 1..Len(queue) : queue[i].foundOn = url}
        \cup {i \in 1..Len(inflight) : inflight[i].foundOn = url}
EmptyPageResult(url, status) ==
    [url |-> url, status |-> status, title |-> NullText,
     metaDescription |-> NullText, h1 |-> NullText,
     issues |-> <<"Missing title tag", "Missing meta description", "Missing H1 tag">>,
     links |-> <<>>, images |-> <<>>]
C18_TimeoutIs408 ==
    \A h \in returned :
        LastFetch(h) = [kind |-> "thrown", name |-> "AbortError"] =>
            /\ h.pageData = [kind |-> "page", html |-> EmptyHtml, status |-> 408]
            /\ \E i \in 1..Len(results) :
                  results[i] = EmptyPageResult(h.item.url, 408)
            /\ FoundOn(h.item.url) = {}
            /\ h.item.url \notin rejected
            /\ rejected = {} => activeRequests = Len(inflight)
\* With one fetch at a time, a page one link away from the start timed out,
\* on the second fetch of its fetchPage() call, and a page fetched after it
\* was stored with status 200 before crawl() returned.
C18_Witness ==
    /\ concurrency = 1
    /\ crawlPc = "done"
    /\ \E h \in returned :
          /\ LastFetch(h) = [kind |-> "thrown", name |-> "AbortError"]
          /\ h.attempts = 2
          /\ h.item.depth = 1
          /\ \E i, j \in 1..Len(results) :
                /\ i < j
                /\ results[i].url = h.item.url
                /\ results[i].status = 408
                /\ results[j].status = 200

\* C19 (non-HTML classification): a fetch answered by a response that is not
\* HTML is the last fetch of its fetchPage() call, which returned {html: '',
\* status: the status of that response}; the URL has the result of an empty
\* page with that status: null title, meta description and h1, the three
\* "Missing ..." issues, no links; and nothing was enqueued from it.
C19_NonHtmlClassification ==
    \A h \in returned : \A k \in 1..h.attempts :
        (h.fetches[k].kind = "response" /\ h.fetches[k].contentType = "text/plain") =>
            /\ h.attempts = k
            /\ h.pageData =
                  [kind |-> "page", html |-> EmptyHtml, status |-> h.fetches[k].status]
            /\ \E i \in 1..Len(results) :
                  results[i] = EmptyPageResult(h.item.url, h.fetches[k].status)
            /\ FoundOn(h.item.url) = {}
            /\ h.item.url \notin rejected
\* The start page, crawled with maxDepth 1, was answered with status 200 and
\* content type text/plain: crawl() returned with that one result.
C19_Witness ==
    /\ maxDepth = 1
    /\ crawlPc = "done"
    /\ Len(results) = 1
    /\ results[1].status = 200
    /\ results[1].title = NullText
    /\ \E h \in returned :
          /\ h.item.depth = 0
          /\ h.attempts = 1
          /\ h.fetches[1] =
                [kind |-> "response", contentType |-> "text/plain", status |-> 200]

\* C20 (generateSummary counts only status-200 results): totalPages is the
\* number of results with status 200; missingTitles, missingMetaDescriptions
\* and missingH1s list the URLs of exactly the status-200 results whose title,
\* description or h1 is null or empty, and missingAltText the images without
\* alt text of the status-200 results, all in input order; on an empty input
\* every field is 0 or empty.
Lacks(text) == text \in {NullText, ""}
Pages200 == {i \in 1..Len(summaryInput) : summaryInput[i].status = 200}
\* The k-th smallest element of a set of indices.
Nth(S, k) == CHOOSE i \in S : Cardinality({j \in S : j < i}) = k - 1
UrlsAt(S) == [k \in 1..Cardinality(S) |-> summaryInput[Nth(S, k)].url]
NoAlt ==
    {p \in Pages200 \X (1..Len(SomeImages)) :
        /\ p[2] <= Len(summaryInput[p[1]].images)
        /\ Lacks(summaryInput[p[1]].images[p[2]].alt)}
Before(p, q) == p[1] < q[1] \/ (p[1] = q[1] /\ p[2] < q[2])
NthNoAlt(k) == CHOOSE p \in NoAlt : Cardinality({q \in NoAlt : Before(q, p)}) = k - 1
C20_SummaryCounts200Only ==
    summaryPc = "returned" =>
        /\ summary.totalPages = Cardinality(Pages200)
        /\ summary.missingTitles = UrlsAt({i \in Pages200 : Lacks(summaryInput[i].title)})
        /\ summary.missingMetaDescriptions =
              UrlsAt({i \in Pages200 : Lacks(summaryInput[i].metaDescription)})
        /\ summary.missingH1s = UrlsAt({i \in Pages200 : Lacks(summaryInput[i].h1)})
        /\ summary.missingAltText =
              [k \in 1..Cardinality(NoAlt) |->
                  [page |-> summaryInput[NthNoAlt(k)[1]].url,
                   image |-> summaryInput[NthNoAlt(k)[1]].images[NthNoAlt(k)[2]].src]]
        /\ summaryInput = <<>> =>
              summary = [totalPages |-> 0, brokenLinks |-> <<>>, missingTitles |-> <<>>,
                         missingMetaDescriptions |-> <<>>, missingH1s |-> <<>>,
                         missingAltText |-> <<>>, duplicateTitles |-> <<>>]
\* generateSummary was called with a 404 result without texts followed by a
\* 200 result without texts, and listed only the second.
C20_Witness ==
    /\ summaryPc = "returned"
    /\ Len(summaryInput) = 2
    /\ summaryInput[1] =
          CrawlResult(PageA, 404, <<NullText, NullText, NullText>>, <<>>, <<>>)
    /\ summaryInput[2] =
          CrawlResult(PageB, 200, <<NullText, NullText, NullText>>, <<>>, <<>>)
    /\ summary.totalPages = 1
    /\ summary.missingTitles = <<PageB>>
    /\ summary.missingH1s = <<PageB>>

\* C21 (broken links): brokenLinks has one entry, with its url and status,
\* for each result whose status is >= 400 or 0, in input order, and no other
\* entry.
Broken == {i \in 1..Len(summaryInput) :
              summaryInput[i].status >= 400 \/ summaryInput[i].status = 0}
C21_BrokenLinks ==
    summaryPc = "returned" =>
        /\ Len(summary.brokenLinks) = Cardinality(Broken)
        /\ \A k \in 1..Len(summary.brokenLinks) :
              /\ summary.brokenLinks[k].url = summaryInput[Nth(Broken, k)].url
              /\ summary.brokenLinks[k].status = summaryInput[Nth(Broken, k)].status
\* A failed fetch (status 0) followed by a server error (status 500).
C21_Witness ==
    /\ summaryPc = "returned"
    /\ Len(summaryInput) = 2
    /\ summaryInput[1].status = 0
    /\ summaryInput[2].status = 500
    /\ summaryInput[1].url = PageB
    /\ Len(summary.brokenLinks) = 2
    /\ summary.brokenLinks[1].status = 0
    /\ summary.brokenLinks[2].url = PageA

\* C22 (broken-link attribution): foundOn of a broken result is the URL of
\* the first result, other than the broken result itself, whose links contain
\* its URL, and 'unknown' when no other result links to it.
Contains(links, url) == \E k \in 1..Len(links) : links[k] = url
OthersLinkingTo(i) ==
    {j \in 1..Len(summaryInput) :
        j # i /\ Contains(summaryInput[j].links, summaryInput[i].url)}
C22_FoundOnOtherResult ==
    summaryPc = "returned" =>
        \A k \in 1..Len(summary.brokenLinks) :
            LET i == Nth(Broken, k) IN
            summary.brokenLinks[k].foundOn =
                IF OthersLinkingTo(i) = {} THEN MkUrl("unknown", "", FALSE, FALSE)
                ELSE summaryInput[Nth(OthersLinkingTo(i), 1)].url

\* C23 (duplicate titles): duplicateTitles has one entry for each title that
\* at least 2 status-200 results carry, listing the URLs of all of them, and
\* no other entry.
Carrying(title) == {i \in Pages200 : summaryInput[i].title = title}
SharedTitles ==
    {t \in {summaryInput[i].title : i \in Pages200} :
        ~Lacks(t) /\ Cardinality(Carrying(t)) >= 2}
C23_DuplicateTitles ==
    summaryPc = "returned" =>
        /\ \A t \in SharedTitles :
              Cardinality({k \in 1..Len(summary.duplicateTitles) :
                              summary.duplicateTitles[k].title = t}) = 1
        /\ \A k \in 1..Len(summary.duplicateTitles) :
              /\ summary.duplicateTitles[k].title \in SharedTitles
              /\ summary.duplicateTitles[k].pages =
                    UrlsAt(Carrying(summary.duplicateTitles[k].title))
\* Two status-200 results with the same title.
C23_Witness ==
    /\ summaryPc = "returned"
    /\ Len(summaryInput) = 2
    /\ summaryInput[1].status = 200 /\ summaryInput[2].status = 200
    /\ summaryInput[1].title = "T" /\ summaryInput[2].title = "T"
    /\ summaryInput[1].url = PageA /\ summaryInput[2].url = PageB
    /\ summary.duplicateTitles = <<[title |-> "T", pages |-> <<PageA, PageB>>]>>

\* C24 (link expansion rule): every queue entry other than the seed was
\* added while processing a page fetched with status 200 at a depth below
\* maxDepth, has that page's depth + 1 and that page's URL as foundOn; a page
\* with any other status (404, 408, failed) has added no entry.
Seed == [url |-> normalizeUrl(StartUrl), depth |-> 0, foundOn |-> StartMarker]
Entries ==
    {queue[i] : i \in 1..Len(queue)}
        \cup {inflight[i] : i \in 1..Len(inflight)}
        \cup {h.item : h \in returned}
C24_LinkExpansionRule ==
    /\ \A e \in Entries \ {Seed} :
          \E h \in returned :
              /\ h.item.url = e.foundOn
              /\ h.pageData.kind = "page"
              /\ h.pageData.status = 200
              /\ h.item.depth < maxDepth
              /\ e.depth = h.item.depth + 1
    /\ \A h \in returned :
          (h.pageData.kind = "null" \/ h.pageData.status # 200) =>
              \A e \in Entries : e.foundOn # h.item.url
\* The start page came back as an HTML page with status 404 and a link, with
\* maxDepth 1: the link is in the result and the queue stayed empty.
C24_Witness ==
    /\ maxDepth = 1
    /\ Len(results) = 1
    /\ results[1].status = 404
    /\ results[1].links = <<PageB>>
    /\ queue = <<>>
    /\ inflight = <<>>
\* C25: at no time does the queue hold, and at no time is a fetch started
\* for, a URL whose path ends with a skip-listed extension or contains a
\* skip-listed path segment, whatever the case of its letters; the seeded
\* start URL is such an entry too.
Pathname(u) == IF u.path = "doc.pdf?dl=1" THEN "doc.pdf" ELSE u.path

SkipListed(u) ==
    (IF Pathname(u) = "DOC.PDF" THEN "doc.pdf" ELSE Pathname(u))
        \in {"doc.pdf", "feed"}

C25_SkipRule ==
    /\ \A k \in 1..Len(queue) : ~SkipListed(queue[k].url)
    /\ \A k \in 1..Len(fetchLog) : ~SkipListed(fetchLog[k])

\* C26: no step of a crawl removes a URL from the visited set, and no step
\* adds a queue entry for a URL that is in the visited set.
Pushed == {queue'[k] : k \in (Len(queue) + 1)..Len(queue')}

C26_VisitedFinal ==
    [][/\ visited \subseteq visited'
       /\ \A e \in Pushed : e.url \notin visited /\ e.url \notin visited']_vars

\* The start page was expanded and links to itself: no entry was pushed for it.
C26_Witness ==
    /\ maxDepth = 1
    /\ Len(fetchLog) = 1
    /\ Len(results) = 1
    /\ results[1].status = 200
    /\ \E k \in 1..Len(results[1].links) :
          normalizeUrl(results[1].links[k]) \in visited
    /\ queue = <<>>

\* C27: at any time the number of GET attempts issued, retries included, is
\* at most the number of completed acquire() calls.  The fetchPage() calls
\* that returned issued GetAttempts fetches; no more than AcquireCalls calls
\* of acquire() were made, one by each fetchPage() call still in flight and
\* those the calls that returned made.
RECURSIVE SumOf(_, _)
SumOf(hs, field) ==
    IF hs = {} THEN 0
    ELSE LET h == CHOOSE x \in hs : TRUE
         IN  h[field] + SumOf(hs \ {h}, field)

GetAttempts == SumOf(returned, "attempts")
AcquireCalls == SumOf(returned, "acquires") + Len(inflight)

C27_EveryAttemptGated == GetAttempts <= AcquireCalls

\* C28: a provided onProgress is invoked exactly once for each URL whose
\* fetch was started, once its result is stored and activeRequests is
\* decremented, with (results.size, queue.length); it is never invoked for a
\* dropped target, and its first argument is at least 1 and never decreases
\* from one invocation to the next.  As an invariant: each task fetchPage
\* returned to has made one call, no one else has made any, and the first
\* arguments are positive and in order.
CallsBy(url) == {k \in 1..Len(progress) : progress[k].by = url}

C28_ProgressCallback ==
    onProgress =>
        /\ \A h \in returned : Cardinality(CallsBy(h.item.url)) = 1
        /\ \A k \in 1..Len(progress) :
              /\ \E h \in returned : h.item.url = progress[k].by
              /\ progress[k].crawled >= 1
              /\ k > 1 => progress[k - 1].crawled <= progress[k].crawled

\* C29: for every concurrency and every order of fetch completions, targets
\* are dequeued for fetching in non-decreasing depth order, and the depth at
\* which a URL is fetched equals its shortest link distance from the start
\* URL through status-200 pages.  The links are those of the results stored
\* so far; a URL is fetched at most once, so the entry it was fetched from is
\* unique.
LinksOf(r) == {normalizeUrl(r.links[k]) : k \in 1..Len(r.links)}

\* The URLs at most n links away from the start URL, through status-200 pages.
RECURSIVE Within(_)
Within(n) ==
    IF n = 0 THEN {normalizeUrl(StartUrl)}
    ELSE Within(n - 1)
             \cup UNION {LinksOf(results[i]) :
                            i \in {j \in 1..Len(results) :
                                      /\ results[j].url \in Within(n - 1)
                                      /\ results[j].status = 200}}

Distance(u) == CHOOSE n \in 0..Len(results) :
                   u \in Within(n) /\ \A m \in 0..(n - 1) : u \notin Within(m)

Fetched == {inflight[i] : i \in 1..Len(inflight)} \cup {h.item : h \in returned}
FetchedDepth(k) == (CHOOSE e \in Fetched : e.url = fetchLog[k]).depth

C29_BreadthFirst ==
    /\ \A j, k \in 1..Len(fetchLog) : j < k => FetchedDepth(j) <= FetchedDepth(k)
    /\ \A e \in Fetched : e.depth = Distance(e.url)

\* C30: if the page budget is never reached, then when crawl() has returned
\* every internal URL that is not skip-listed and is at most maxDepth links
\* away from the start URL, through status-200 pages, has a result.  The
\* results only grow in number, so the budget was never reached if it is
\* not reached at the end.
C30_CrawlComplete ==
    (crawlPc = "done" /\ MapSize(results) < maxPages) =>
        \A u \in Within(maxDepth) :
            (isInternalUrl(u) /\ ~SkipListed(u)) => MapHas(results, u)

====
